---------------------------- MODULE Spec2Model ----------------------------
(***************************************************************************)
(* Model of subnet_inventory.py: a flat-file inventory of named CIDR       *)
(* blocks.  Texts (names, addresses, file contents) are sequences of       *)
(* one-character strings, so that formatting a line and parsing it back    *)
(* are distinct computations.  Addresses are tuples of octets, 4 for IPv4   *)
(* and 16 for IPv6 (Python integers do not overflow; octets avoid 2^32).   *)
(***************************************************************************)
EXTENDS Integers, Sequences, FiniteSets, TLC

VARIABLES
    file,       \* the file at INVENTORY_PATH: [exists, data]
    pc,         \* per invocation: where it stands
    name,       \* per invocation: subnet.name / subnet_name / delete_name
    cidr,       \* per invocation: subnet.cidr_string / cidr_addr_string
    conflicts,  \* per invocation: conflicting_subnets of add_subnet
    verify,     \* per invocation: the last answer read by a Y/n prompt
    out,        \* per invocation: what it printed last, or how it ended
    inv,        \* per invocation: delete_subnet's local `inventory`
    rt,         \* observer: the last add_subnet that appended, and a delete after it
    arg,        \* argument of the pure function under test
    ret         \* its return value

vars == <<file, pc, name, cidr, conflicts, verify, out, inv, rt, arg, ret>>

---------------------------------------------------------------------------
(* Bounds *)

\* most records the command-line invocations let the inventory grow to
MaxRecords == 2
\* most records the direct calls of add_subnet let the inventory grow to
MaxCallRecords == 2
\* longest run of digits in a generated address text
MaxDigits == 4

---------------------------------------------------------------------------
(* Characters and text *)

DigitChars == {"0", "1", "2", "3", "4", "5", "6", "7", "8", "9"}

\* int() of one ASCII digit
DigitVal(c) ==
    CASE c = "0" -> 0 [] c = "1" -> 1 [] c = "2" -> 2 [] c = "3" -> 3
      [] c = "4" -> 4 [] c = "5" -> 5 [] c = "6" -> 6 [] c = "7" -> 7
      [] c = "8" -> 8 [] c = "9" -> 9

\* str.isdigit() on a text (false on the empty text)
IsDigits(t) == Len(t) > 0 /\ \A i \in 1..Len(t) : t[i] \in DigitChars

\* int() of a text of digits
RECURSIVE IntOf(_)
IntOf(t) ==
    IF Len(t) = 0 THEN 0
    ELSE 10 * IntOf(SubSeq(t, 1, Len(t) - 1)) + DigitVal(t[Len(t)])

\* positions of character c in text t
Positions(t, c) == {i \in 1..Len(t) : t[i] = c}

SetMax(S) == CHOOSE x \in S : \A y \in S : y <= x
SetMin(S) == CHOOSE x \in S : \A y \in S : x <= y

\* str.split(c): the pieces between the occurrences of c
RECURSIVE split(_, _)
split(t, c) ==
    IF Positions(t, c) = {} THEN <<t>>
    ELSE LET i == SetMin(Positions(t, c))
         IN  <<SubSeq(t, 1, i - 1)>> \o split(SubSeq(t, i + 1, Len(t)), c)

\* str.rsplit(' ', 1): split once at the last space
rsplit(line) ==
    IF Positions(line, " ") = {} THEN <<line>>
    ELSE LET i == SetMax(Positions(line, " "))
         IN  <<SubSeq(line, 1, i - 1), SubSeq(line, i + 1, Len(line))>>

\* str.strip(): leading and trailing whitespace removed
Whitespace == {" ", "\n"}
strip(t) ==
    LET keep == {i \in 1..Len(t) : t[i] \notin Whitespace}
    IN  IF keep = {} THEN <<>> ELSE SubSeq(t, SetMin(keep), SetMax(keep))

\* f.readlines(): the lines of the file, each with its line ending
RECURSIVE readlines(_)
readlines(data) ==
    IF Len(data) = 0 THEN <<>>
    ELSE IF Positions(data, "\n") = {} THEN <<data>>
    ELSE LET i == SetMin(Positions(data, "\n"))
         IN  <<SubSeq(data, 1, i)>> \o readlines(SubSeq(data, i + 1, Len(data)))

\* "{name} {address}\n".format(...)
FormatLine(n, a) == n \o <<" ">> \o a \o <<"\n">>

\* concatenation of the texts of a sequence
RECURSIVE Join(_)
Join(ls) == IF Len(ls) = 0 THEN <<>> ELSE Head(ls) \o Join(Tail(ls))

---------------------------------------------------------------------------
(* ipaddress.ip_network(text, strict=False) and network.overlaps.  A       *)
(* network is its version, its address as octets (4 or 16) and its prefix  *)
(* length.  Not among the inputs of this model, and rejected by it: the   *)
(* dotted netmask form of the prefix, and an IPv4 tail in an IPv6 address *)

Pow2(k) == 2 ^ k
Min2(a, b) == IF a <= b THEN a ELSE b
Max2(a, b) == IF a >= b THEN a ELSE b

\* how many bits of octet i the prefix covers
KeptBits(prefixlen, i) == Max2(0, Min2(8, prefixlen - 8 * (i - 1)))

\* address & netmask
MaskAddr(addr, prefixlen) ==
    [i \in 1..Len(addr) |->
        LET h == Pow2(8 - KeptBits(prefixlen, i)) IN (addr[i] \div h) * h]

\* network.broadcast_address: network address | hostmask
Broadcast(net) ==
    [i \in 1..Len(net.addr) |->
        net.addr[i] + Pow2(8 - KeptBits(net.prefixlen, i)) - 1]

\* ValueError
NoNetwork == [ok |-> FALSE, version |-> 0, addr |-> <<>>, prefixlen |-> 0]

\* a network from an address and a prefix length: host bits are masked off
MakeNetwork(version, addr, prefixlen) ==
    [ok |-> TRUE, version |-> version,
     addr |-> MaskAddr(addr, prefixlen), prefixlen |-> prefixlen]

\* one octet of dotted-quad text: digits only, at most 3, no leading zero, <= 255
OctetOk(t) ==
    /\ IsDigits(t)
    /\ Len(t) <= 3
    /\ (Len(t) > 1 => t[1] # "0")
    /\ IntOf(t) <= 255

\* a decimal prefix length of at most max; no "/" stands for max
PrefixOk(parts, max) ==
    Len(parts) = 2 => (IsDigits(parts[2]) /\ IntOf(parts[2]) <= max)
PrefixLen(parts, max) == IF Len(parts) = 1 THEN max ELSE IntOf(parts[2])

\* the dotted quad of an IPv4Network and its prefix length
IPv4Octets(octs, prefixlen) ==
    IF Len(octs) = 4 /\ \A i \in 1..4 : OctetOk(octs[i])
    THEN MakeNetwork(4, [i \in 1..4 |-> IntOf(octs[i])], prefixlen)
    ELSE NoNetwork

\* an IPv4Network from the text split at "/"
IPv4Prefixed(parts) ==
    IF Len(parts) <= 2 /\ PrefixOk(parts, 32)
    THEN IPv4Octets(split(parts[1], "."), PrefixLen(parts, 32))
    ELSE NoNetwork

\* IPv4Network(text, strict=False)
IPv4Network(text) == IPv4Prefixed(split(text, "/"))

HexLetters == {"a", "b", "c", "d", "e", "f", "A", "B", "C", "D", "E", "F"}
HexVal(c) ==
    IF c \in DigitChars THEN DigitVal(c)
    ELSE CASE c \in {"a", "A"} -> 10 [] c \in {"b", "B"} -> 11
           [] c \in {"c", "C"} -> 12 [] c \in {"d", "D"} -> 13
           [] c \in {"e", "E"} -> 14 [] c \in {"f", "F"} -> 15

\* one group of an IPv6 address: 1 to 4 hexadecimal digits
HextetOk(t) ==
    /\ Len(t) >= 1
    /\ Len(t) <= 4
    /\ \A i \in 1..Len(t) : t[i] \in DigitChars \cup HexLetters

RECURSIVE HextetVal(_)
HextetVal(t) ==
    IF Len(t) = 0 THEN 0
    ELSE 16 * HextetVal(SubSeq(t, 1, Len(t) - 1)) + HexVal(t[Len(t)])

\* the k-th of the 8 groups: hi groups before the "::" gap, lo after it
IPv6Hextet(groups, hi, lo, k) ==
    IF k <= hi THEN HextetVal(groups[k])
    ELSE IF k > 8 - lo THEN HextetVal(groups[Len(groups) - (8 - k)])
    ELSE 0

\* the 16 octets of the address
IPv6Octets(groups, hi, lo) ==
    [i \in 1..16 |->
        LET h == IPv6Hextet(groups, hi, lo, (i + 1) \div 2)
        IN  IF i % 2 = 1 THEN h \div 256 ELSE h % 256]

\* the checks of _ip_int_from_string on the groups; skip = 0 with no "::"
IPv6GroupsOk(groups, skip, hi, lo) ==
    /\ Len(groups) >= 3
    /\ Len(groups) <= 9
    /\ Cardinality({i \in 2..(Len(groups) - 1) : groups[i] = <<>>}) <= 1
    /\ IF skip = 0
       THEN Len(groups) = 8 /\ groups[1] # <<>> /\ groups[Len(groups)] # <<>>
       ELSE /\ (groups[1] = <<>> => hi = 0)
            /\ (groups[Len(groups)] = <<>> => lo = 0)
            /\ 8 - (hi + lo) >= 1
    /\ \A i \in 1..hi : HextetOk(groups[i])
    /\ \A i \in (Len(groups) - lo + 1)..Len(groups) : HextetOk(groups[i])

\* the index of the empty group that "::" leaves, 0 when there is none
SkipIndex(groups) ==
    LET skips == {i \in 2..(Len(groups) - 1) : groups[i] = <<>>}
    IN  IF skips = {} THEN 0 ELSE SetMin(skips)

\* the groups before and after the gap, an empty first or last group not
\* counted
IPv6Parts(groups, skip, prefixlen) ==
    LET n  == Len(groups)
        hi == IF skip = 0 THEN n
              ELSE IF groups[1] = <<>> THEN skip - 2 ELSE skip - 1
        lo == IF skip = 0 THEN 0
              ELSE IF groups[n] = <<>> THEN n - skip - 1 ELSE n - skip
    IN  IF IPv6GroupsOk(groups, skip, hi, lo)
        THEN MakeNetwork(6, IPv6Octets(groups, hi, lo), prefixlen)
        ELSE NoNetwork

\* address%scope: the scope id is any non-empty text without "%"; it is not
\* part of the network's address
IPv6Scoped(scoped, prefixlen) ==
    IF Len(scoped) <= 2 /\ (Len(scoped) = 2 => scoped[2] # <<>>)
    THEN IPv6Parts(split(scoped[1], ":"), SkipIndex(split(scoped[1], ":")),
                   prefixlen)
    ELSE NoNetwork

\* an IPv6Network from the text split at "/"
IPv6Prefixed(parts) ==
    IF Len(parts) <= 2 /\ PrefixOk(parts, 128)
    THEN IPv6Scoped(split(parts[1], "%"), PrefixLen(parts, 128))
    ELSE NoNetwork

\* IPv6Network(text, strict=False): address, optional %scope, optional prefix
IPv6Network(text) == IPv6Prefixed(split(text, "/"))

\* the first network if the text parsed as one, else the second
FirstOk(a, b) == IF a.ok THEN a ELSE b

\* ip_network(text, strict=False): IPv4 first, then IPv6; ok = FALSE stands
\* for ValueError
ip_network(text) == FirstOk(IPv4Network(text), IPv6Network(text))

\* `address in network`: same version and address & netmask == network_address
Contains(net, version, addr) ==
    /\ net.version = version
    /\ MaskAddr(addr, net.prefixlen) = net.addr

\* network.overlaps testing only whether a lies partly in b
OverlapsOneSided(a, b) ==
    \/ Contains(b, a.version, a.addr)
    \/ Contains(b, a.version, Broadcast(a))

\* subnets_conflict(cidr1, cidr2): cidr1.overlaps(cidr2)
subnets_conflict(a, b) ==
    \/ Contains(b, a.version, a.addr)
    \/ Contains(b, a.version, Broadcast(a))
    \/ Contains(a, b.version, b.addr)
    \/ Contains(a, b.version, Broadcast(b))

---------------------------------------------------------------------------
(* check_address_format: re.search of the CIDR pattern *)

\* end positions after lo..hi digits of t, started at a position of S
DigitRun(t, S, lo, hi) ==
    {j \in 1..(Len(t) + 1) :
        \E i \in S : /\ j - i >= lo
                     /\ j - i <= hi
                     /\ \A k \in i..(j - 1) : t[k] \in DigitChars}

\* end positions after the literal character c, started at a position of S
Literal(t, S, c) == {i + 1 : i \in {k \in S : k <= Len(t) /\ t[k] = c}}

\* end positions of \d{1,3}\.\d{1,3}\.\d{1,3}\.\d{1,3}/\d{1,2} started in S
CidrPatternEnds(t, S) ==
    LET g1 == DigitRun(t, S, 1, 3)
        g2 == DigitRun(t, Literal(t, g1, "."), 1, 3)
        g3 == DigitRun(t, Literal(t, g2, "."), 1, 3)
        g4 == DigitRun(t, Literal(t, g3, "."), 1, 3)
    IN  DigitRun(t, Literal(t, g4, "/"), 1, 2)

\* check_address_format(cidr_string): the pattern is found anywhere in the text
check_address_format(cidr_string) ==
    CidrPatternEnds(cidr_string, 1..(Len(cidr_string) + 1)) # {}

---------------------------------------------------------------------------
(* The inventory file and the functions that read it *)

\* reserved_subnets = ["192.168.14.128/25"]
reserved_subnets ==
    << <<"1","9","2",".","1","6","8",".","1","4",".","1","2","8","/","2","5">> >>

\* inventory_address.rsplit(' ', 1)[0]
NameOf(line) == rsplit(line)[1]

\* inventory_address.rsplit(' ', 1)[1] raises IndexError on a line without a space
NoAddressField(line) == Len(rsplit(line)) < 2

\* inventory_address.rsplit(' ', 1)[1].strip()
AddressOf(line) == strip(rsplit(line)[2])

\* Subnet(name=..., cidr_string=...)
Subnet(n, c) == [name |-> n, cidr_string |-> c]

\* names_conflict(chosen_name) on an existing file
names_conflict(data, chosen_name) ==
    LET inventory == readlines(data)
    IN  \E i \in 1..Len(inventory) : chosen_name = NameOf(inventory[i])

\* check_subnet_by_name(name_to_check): FileNotFoundError is caught
check_subnet_by_name(f, name_to_check) ==
    /\ f.exists
    /\ LET inventory == readlines(f.data)
       IN  \E i \in 1..Len(inventory) : NameOf(inventory[i]) = name_to_check

\* the loop of check_subnet_by_address: "True", "False" or "IndexError"
RECURSIVE AddressLoop(_, _)
AddressLoop(inventory, cidr_string) ==
    IF Len(inventory) = 0 THEN "False"
    ELSE IF NoAddressField(Head(inventory)) THEN "IndexError"
    ELSE IF AddressOf(Head(inventory)) = cidr_string THEN "True"
    ELSE AddressLoop(Tail(inventory), cidr_string)

\* check_subnet_by_address(cidr_string): FileNotFoundError is caught
check_subnet_by_address(f, cidr_string) ==
    IF ~f.exists THEN "False" ELSE AddressLoop(readlines(f.data), cidr_string)

\* the loop of check_inventory_for_conflicts over the lines read: the list,
\* or the exception the first bad line raises
RECURSIVE ConflictLoop(_, _)
ConflictLoop(inventory, net) ==
    IF Len(inventory) = 0 THEN [err |-> "", list |-> <<>>]
    ELSE IF NoAddressField(Head(inventory)) THEN [err |-> "IndexError", list |-> <<>>]
    ELSE LET inventory_address == Head(inventory)
             cidr_string_to_compare == AddressOf(inventory_address)
             other == ip_network(cidr_string_to_compare)
             rest == ConflictLoop(Tail(inventory), net)
         IN  IF ~other.ok THEN [err |-> "ValueError", list |-> <<>>]
             ELSE IF rest.err # "" THEN rest
             ELSE [err |-> "",
                   list |-> (IF subnets_conflict(net, other)
                             THEN <<Subnet(NameOf(inventory_address),
                                           cidr_string_to_compare)>>
                             ELSE <<>>) \o rest.list]

\* check_inventory_for_conflicts(cidr) on an existing file
check_inventory_for_conflicts(data, net) == ConflictLoop(readlines(data), net)

\* the rows display_inventory prints, and IndexError at a line without a space
RECURSIVE DisplayLoop(_)
DisplayLoop(inventory) ==
    IF Len(inventory) = 0 THEN [err |-> "", rows |-> <<>>]
    ELSE IF NoAddressField(Head(inventory)) THEN [err |-> "IndexError", rows |-> <<>>]
    ELSE LET rest == DisplayLoop(Tail(inventory))
         IN  [rest EXCEPT !.rows =
                <<Subnet(NameOf(Head(inventory)), AddressOf(Head(inventory)))>> \o @]

\* display_inventory() on an existing file
display_inventory(data) == DisplayLoop(readlines(data))

\* the reserved check asking only whether the candidate starts inside a
\* reserved network
IsReservedByFirstAddress(net) ==
    \E i \in 1..Len(reserved_subnets) :
        Contains(ip_network(reserved_subnets[i]), net.version, net.addr)

\* the reserved check at the head of add_subnet
IsReserved(net) ==
    \E i \in 1..Len(reserved_subnets) :
        subnets_conflict(net, ip_network(reserved_subnets[i]))

\* open(INVENTORY_PATH, "a+"); f.write(to_add)
AppendLine(f, to_add) == [exists |-> TRUE, data |-> f.data \o to_add]

\* f.write at position pos of a file opened r+: bytes are overwritten
WriteAt(data, pos, text) ==
    SubSeq(data, 1, pos) \o text \o SubSeq(data, pos + Len(text) + 1, Len(data))

\* f.truncate(0): the file is cut at its start, not at the position written to
TruncateAtStart(data, pos) == <<>>

\* f.truncate() at position pos
Truncate(data, pos) == SubSeq(data, 1, Min2(pos, Len(data)))

\* delete_subnet's loop that stops writing at the first matching line
KeptUntilMatch(inventory, delete_name) ==
    LET hits == {i \in 1..Len(inventory) : NameOf(inventory[i]) = delete_name}
    IN  IF hits = {} THEN Join(inventory)
        ELSE Join(SubSeq(inventory, 1, SetMin(hits) - 1))

\* what delete_subnet's loop writes: the lines whose name is not delete_name
RECURSIVE Kept(_, _)
Kept(inventory, delete_name) ==
    IF Len(inventory) = 0 THEN <<>>
    ELSE (IF NameOf(Head(inventory)) # delete_name THEN Head(inventory) ELSE <<>>)
         \o Kept(Tail(inventory), delete_name)

\* delete_subnet(delete_name) on an existing file, run without interruption
delete_subnet(data, delete_name) ==
    LET written == Kept(readlines(data), delete_name)
    IN  Truncate(WriteAt(data, 0, written), Len(written))

---------------------------------------------------------------------------
(* Inputs typed at the prompts *)

Procs == {1, 2}

\* answers to "Please enter a name for your subnet: "
Names == { <<"a">>, <<"b">>, <<"a", " ", "b">> }

C_10_0_0_0_24    == <<"1","0",".","0",".","0",".","0","/","2","4">>
C_10_0_0_5_24    == <<"1","0",".","0",".","0",".","5","/","2","4">>
C_10_0_0_128_25  == <<"1","0",".","0",".","0",".","1","2","8","/","2","5">>
C_10_0_0_0_25    == <<"1","0",".","0",".","0",".","0","/","2","5">>
C_192_168_14_0_25 == <<"1","9","2",".","1","6","8",".","1","4",".","0","/","2","5">>
C_192_168_14_0_24 == <<"1","9","2",".","1","6","8",".","1","4",".","0","/","2","4">>
C_192_168_14_200_32 ==
    <<"1","9","2",".","1","6","8",".","1","4",".","2","0","0","/","3","2">>
C_999_0_0_0_24   == <<"9","9","9",".","0",".","0",".","0","/","2","4">>
C_10_0_0_0       == <<"1","0",".","0",".","0",".","0">>
C_x_10_0_0_0_24  == <<"x"," ","1","0",".","0",".","0",".","0","/","2","4">>
\* an IPv6 network whose scope id holds a space and a dotted quad
C_fe80_scope_32  ==
    <<"f","e","8","0",":",":","%","x"," ","1",".","1",".","1",".","1","/","3","2">>
C_fe80_scope_64  ==
    <<"f","e","8","0",":",":","%","x"," ","1",".","1",".","1",".","1","/","6","4">>

\* answers to "Please enter your subnet in CIDR notation: "
CidrInputs ==
    { C_10_0_0_0_24, C_10_0_0_5_24, C_10_0_0_128_25, C_10_0_0_0_25,
      C_192_168_14_0_25, C_192_168_14_0_24, C_192_168_14_200_32,
      C_999_0_0_0_24, C_10_0_0_0, C_x_10_0_0_0_24,
      C_fe80_scope_32, C_fe80_scope_64 }

\* answers to a "(Y/n): " prompt
Answers == {"Y", "n", "y"}

---------------------------------------------------------------------------
(* State *)

NoOut == [msg |-> "", rows |-> <<>>]
Msg(m) == [msg |-> m, rows |-> <<>>]
RtNone == [stage |-> "none", name |-> <<>>, before |-> <<>>]

Init ==
    /\ file \in {[exists |-> e, data |-> <<>>] : e \in BOOLEAN}
    /\ pc = [p \in Procs |-> "idle"]
    /\ name = [p \in Procs |-> <<>>]
    /\ cidr = [p \in Procs |-> <<>>]
    /\ conflicts = [p \in Procs |-> <<>>]
    /\ verify = [p \in Procs |-> ""]
    /\ out = [p \in Procs |-> NoOut]
    /\ inv = [p \in Procs |-> <<>>]
    /\ rt = RtNone
    /\ arg = <<>>
    /\ ret = <<>>

\* the invocation ends (return, sys.exit or an uncaught exception) saying m
End(p, m) ==
    /\ pc' = [pc EXCEPT ![p] = "done"]
    /\ out' = [out EXCEPT ![p] = Msg(m)]

\* lines 69-75 of add_subnet: format the line, append it, report
WriteRecord(p) ==
    /\ file' = AppendLine(file, FormatLine(name[p], cidr[p]))
    /\ rt' = [stage |-> "added", name |-> name[p], before |-> file.data]
    /\ End(p, "Subnet added to inventory")

\* the observer after delete_subnet(delete_name)
RtAfterDelete(delete_name) ==
    IF rt.stage = "added" /\ rt.name = delete_name
    THEN [rt EXCEPT !.stage = "removed"]
    ELSE RtNone

---------------------------------------------------------------------------
(* The command-line invocations (__main__) *)

\* python3 subnet_inventory.py -a
StartAdd(p) ==
    /\ pc[p] = "idle"
    /\ Len(readlines(file.data)) < MaxRecords
    /\ pc' = [pc EXCEPT ![p] = "add_name"]
    /\ UNCHANGED <<file, name, cidr, conflicts, verify, out, inv, rt, arg, ret>>

\* the name prompt of the add branch: names_conflict decides
EnterName(p, user_subnet_name) ==
    /\ pc[p] = "add_name"
    /\ IF ~file.exists
       THEN End(p, "FileNotFoundError") /\ UNCHANGED name
       ELSE IF names_conflict(file.data, user_subnet_name)
       THEN /\ out' = [out EXCEPT ![p] = Msg("ERROR: Name already in use")]
            /\ UNCHANGED <<pc, name>>
       ELSE /\ name' = [name EXCEPT ![p] = user_subnet_name]
            /\ pc' = [pc EXCEPT ![p] = "add_addr"]
            /\ out' = [out EXCEPT ![p] = NoOut]
    /\ UNCHANGED <<file, cidr, conflicts, verify, inv, rt, arg, ret>>

\* the address prompt of the add branch: format, then presence by text
EnterAddress(p, cidr_addr_string) ==
    /\ pc[p] = "add_addr"
    /\ IF ~check_address_format(cidr_addr_string)
       THEN /\ out' = [out EXCEPT ![p] = Msg("ERROR: Address is not in CIDR format")]
            /\ UNCHANGED <<pc, cidr>>
       ELSE IF check_subnet_by_address(file, cidr_addr_string) = "IndexError"
       THEN End(p, "IndexError") /\ UNCHANGED cidr
       ELSE IF check_subnet_by_address(file, cidr_addr_string) = "True"
       THEN /\ out' = [out EXCEPT ![p] = Msg("Subnet already in inventory")]
            /\ UNCHANGED <<pc, cidr>>
       ELSE /\ cidr' = [cidr EXCEPT ![p] = cidr_addr_string]
            /\ pc' = [pc EXCEPT ![p] = "add_subnet"]
            /\ out' = [out EXCEPT ![p] = NoOut]
    /\ UNCHANGED <<file, name, conflicts, verify, inv, rt, arg, ret>>

\* add_subnet up to its prompt: reserved check, conflict check, and the
\* write when nothing conflicts
AddSubnet(p) ==
    /\ pc[p] = "add_subnet"
    /\ LET net == ip_network(cidr[p])
       IN  IF ~net.ok
           THEN End(p, "ValueError") /\ UNCHANGED <<file, conflicts, rt>>
           ELSE IF IsReserved(net)
           THEN End(p, "Subnet is reserved") /\ UNCHANGED <<file, conflicts, rt>>
           ELSE IF ~file.exists
           THEN End(p, "FileNotFoundError") /\ UNCHANGED <<file, conflicts, rt>>
           ELSE LET checked == check_inventory_for_conflicts(file.data, net)
                    conflicting_subnets == checked.list
                IN  IF checked.err # ""
                    THEN End(p, checked.err) /\ UNCHANGED <<file, conflicts, rt>>
                    ELSE /\ conflicts' = [conflicts EXCEPT ![p] = conflicting_subnets]
                         /\ IF conflicting_subnets # <<>>
                            THEN /\ pc' = [pc EXCEPT ![p] = "add_verify"]
                                 /\ UNCHANGED <<file, out, rt>>
                            ELSE WriteRecord(p)
    /\ UNCHANGED <<name, cidr, verify, inv, arg, ret>>

\* the "Are you sure you wish to add it? (Y/n)" loop of add_subnet
VerifyAdd(p, answer) ==
    /\ pc[p] = "add_verify"
    /\ verify' = [verify EXCEPT ![p] = answer]
    /\ IF answer = "Y"
       THEN WriteRecord(p)
       ELSE IF answer = "n"
       THEN End(p, "Did not add subnet to inventory") /\ UNCHANGED <<file, rt>>
       ELSE /\ out' = [out EXCEPT ![p] = Msg("Please select Y or n")]
            /\ UNCHANGED <<file, pc, rt>>
    /\ UNCHANGED <<name, cidr, conflicts, inv, arg, ret>>

\* python3 subnet_inventory.py -d
StartDelete(p) ==
    /\ pc[p] = "idle"
    /\ pc' = [pc EXCEPT ![p] = "del_name"]
    /\ UNCHANGED <<file, name, cidr, conflicts, verify, out, inv, rt, arg, ret>>

\* the name prompt of the delete branch: check_subnet_by_name decides
EnterDeleteName(p, subnet_name) ==
    /\ pc[p] = "del_name"
    /\ name' = [name EXCEPT ![p] = subnet_name]
    /\ IF check_subnet_by_name(file, subnet_name)
       THEN /\ pc' = [pc EXCEPT ![p] = "del_confirm"]
            /\ UNCHANGED <<out, rt>>
       ELSE /\ End(p, "No subnet with that name found in inventory")
            /\ rt' = RtAfterDelete(subnet_name)
    /\ UNCHANGED <<file, cidr, conflicts, verify, inv, arg, ret>>

\* the "Are you sure you want to delete" loop; on Y, delete_subnet as a whole
ConfirmDelete(p, confirm) ==
    /\ pc[p] = "del_confirm"
    /\ verify' = [verify EXCEPT ![p] = confirm]
    /\ IF confirm = "Y"
       THEN IF ~file.exists
            THEN End(p, "FileNotFoundError") /\ UNCHANGED <<file, inv, rt>>
            ELSE /\ inv' = [inv EXCEPT ![p] = readlines(file.data)]
                 /\ file' = [file EXCEPT !.data = delete_subnet(file.data, name[p])]
                 /\ rt' = RtAfterDelete(name[p])
                 /\ End(p, "subnet removed from inventory")
       ELSE IF confirm = "n"
       THEN End(p, "Subnet not deleted") /\ UNCHANGED <<file, inv, rt>>
       ELSE /\ out' = [out EXCEPT ![p] = Msg("Please select Y or n")]
            /\ UNCHANGED <<file, pc, inv, rt>>
    /\ UNCHANGED <<name, cidr, conflicts, arg, ret>>

\* python3 subnet_inventory.py -q
Query(p, cidr_addr_string) ==
    /\ pc[p] = "idle"
    /\ cidr' = [cidr EXCEPT ![p] = cidr_addr_string]
    /\ LET found == check_subnet_by_address(file, cidr_addr_string)
       IN  IF found = "IndexError" THEN End(p, "IndexError")
           ELSE IF found = "True" THEN End(p, "Subnet exists in inventory")
           ELSE End(p, "Subnet does not exist in inventory")
    /\ UNCHANGED <<file, name, conflicts, verify, inv, rt, arg, ret>>

\* python3 subnet_inventory.py -c
Conflict(p, cidr_addr_string) ==
    /\ pc[p] = "idle"
    /\ cidr' = [cidr EXCEPT ![p] = cidr_addr_string]
    /\ pc' = [pc EXCEPT ![p] = "done"]
    /\ LET net == ip_network(cidr_addr_string)
       IN  IF ~check_address_format(cidr_addr_string)
           THEN out' = [out EXCEPT ![p] = Msg("ERROR: Address is not in CIDR format")]
           ELSE IF ~net.ok
           THEN out' = [out EXCEPT ![p] = Msg("ValueError")]
           ELSE IF ~file.exists
           THEN out' = [out EXCEPT ![p] = Msg("FileNotFoundError")]
           ELSE LET checked == check_inventory_for_conflicts(file.data, net)
                IN  IF checked.err # ""
                    THEN out' = [out EXCEPT ![p] = Msg(checked.err)]
                    ELSE out' = [out EXCEPT ![p] =
                           [msg |-> IF checked.list = <<>>
                                    THEN "No conflicting subnets in inventory"
                                    ELSE "The following subnet conflicts were found",
                            rows |-> checked.list]]
    /\ UNCHANGED <<file, name, conflicts, verify, inv, rt, arg, ret>>

\* python3 subnet_inventory.py -l
List(p) ==
    /\ pc[p] = "idle"
    /\ pc' = [pc EXCEPT ![p] = "done"]
    /\ IF ~file.exists
       THEN out' = [out EXCEPT ![p] = Msg("FileNotFoundError")]
       ELSE out' = [out EXCEPT ![p] =
                      [msg |-> IF display_inventory(file.data).err # ""
                               THEN display_inventory(file.data).err
                               ELSE "Subnet Name - Subnet Address",
                       rows |-> display_inventory(file.data).rows]]
    /\ UNCHANGED <<file, name, cidr, conflicts, verify, inv, rt, arg, ret>>

\* the process is gone; the next invocation starts with fresh locals
Exit(p) ==
    /\ pc[p] = "done"
    /\ pc' = [pc EXCEPT ![p] = "idle"]
    /\ name' = [name EXCEPT ![p] = <<>>]
    /\ cidr' = [cidr EXCEPT ![p] = <<>>]
    /\ conflicts' = [conflicts EXCEPT ![p] = <<>>]
    /\ verify' = [verify EXCEPT ![p] = ""]
    /\ out' = [out EXCEPT ![p] = NoOut]
    /\ inv' = [inv EXCEPT ![p] = <<>>]
    /\ UNCHANGED <<file, rt, arg, ret>>

\* one invocation at a time: invocation 1 runs, ends, and runs again
Next ==
    \/ StartAdd(1)
    \/ \E n \in Names : EnterName(1, n)
    \/ \E c \in CidrInputs : EnterAddress(1, c)
    \/ AddSubnet(1)
    \/ \E a \in Answers : VerifyAdd(1, a)
    \/ StartDelete(1)
    \/ \E n \in Names : EnterDeleteName(1, n)
    \/ \E a \in Answers : ConfirmDelete(1, a)
    \/ \E c \in CidrInputs : Query(1, c)
    \/ \E c \in CidrInputs : Conflict(1, c)
    \/ List(1)
    \/ Exit(1)

Spec == Init /\ [][Next]_vars

---------------------------------------------------------------------------
(* The functions called directly, as a test or another module would *)

\* add_subnet(Subnet(name=n, cidr_string=c))
CallAddSubnet(p, n, c) ==
    /\ pc[p] = "idle"
    /\ Len(readlines(file.data)) < MaxCallRecords
    /\ name' = [name EXCEPT ![p] = n]
    /\ cidr' = [cidr EXCEPT ![p] = c]
    /\ pc' = [pc EXCEPT ![p] = "add_subnet"]
    /\ UNCHANGED <<file, conflicts, verify, out, inv, rt, arg, ret>>

\* delete_subnet(delete_name)
CallDeleteSubnet(p, delete_name) ==
    /\ pc[p] = "idle"
    /\ name' = [name EXCEPT ![p] = delete_name]
    /\ IF ~file.exists
       THEN End(p, "FileNotFoundError") /\ UNCHANGED <<file, inv, rt>>
       ELSE /\ inv' = [inv EXCEPT ![p] = readlines(file.data)]
            /\ file' = [file EXCEPT !.data = delete_subnet(file.data, delete_name)]
            /\ rt' = RtAfterDelete(delete_name)
            /\ End(p, "subnet removed from inventory")
    /\ UNCHANGED <<cidr, conflicts, verify, arg, ret>>

NextCore ==
    \/ \E n \in Names, c \in CidrInputs : CallAddSubnet(1, n, c)
    \/ AddSubnet(1)
    \/ \E a \in Answers : VerifyAdd(1, a)
    \/ \E n \in Names : CallDeleteSubnet(1, n)
    \/ Exit(1)

SpecCore == Init /\ [][NextCore]_vars

---------------------------------------------------------------------------
(* Two invocations at once: delete_subnet's read, write and truncate are   *)
(* separate system calls, and another process may run between them         *)

\* the delete confirmation; on Y, delete_subnet opens the file and reads it
ConfirmDeleteRead(p, confirm) ==
    /\ pc[p] = "del_confirm"
    /\ verify' = [verify EXCEPT ![p] = confirm]
    /\ IF confirm = "Y"
       THEN IF ~file.exists
            THEN End(p, "FileNotFoundError") /\ UNCHANGED inv
            ELSE /\ inv' = [inv EXCEPT ![p] = readlines(file.data)]
                 /\ pc' = [pc EXCEPT ![p] = "del_write"]
                 /\ UNCHANGED out
       ELSE IF confirm = "n"
       THEN End(p, "Subnet not deleted") /\ UNCHANGED inv
       ELSE /\ out' = [out EXCEPT ![p] = Msg("Please select Y or n")]
            /\ UNCHANGED <<pc, inv>>
    /\ UNCHANGED <<file, name, cidr, conflicts, rt, arg, ret>>

\* f.seek(0) and the kept lines written over the start of the file
DeleteWrite(p) ==
    /\ pc[p] = "del_write"
    /\ file' = [file EXCEPT !.data = WriteAt(file.data, 0, Kept(inv[p], name[p]))]
    /\ pc' = [pc EXCEPT ![p] = "del_truncate"]
    /\ UNCHANGED <<name, cidr, conflicts, verify, out, inv, rt, arg, ret>>

\* f.truncate() at the position after the last kept line
DeleteTruncate(p) ==
    /\ pc[p] = "del_truncate"
    /\ file' = [file EXCEPT !.data = Truncate(file.data, Len(Kept(inv[p], name[p])))]
    /\ rt' = RtAfterDelete(name[p])
    /\ End(p, "subnet removed from inventory")
    /\ UNCHANGED <<name, cidr, conflicts, verify, inv, arg, ret>>

\* an inventory left by earlier invocations: empty, or one record
RaceStores == { <<>>, FormatLine(<<"a">>, C_10_0_0_0_24) }

InitRace ==
    /\ file \in {[exists |-> TRUE, data |-> d] : d \in RaceStores}
    /\ pc = [p \in Procs |-> "idle"]
    /\ name = [p \in Procs |-> <<>>]
    /\ cidr = [p \in Procs |-> <<>>]
    /\ conflicts = [p \in Procs |-> <<>>]
    /\ verify = [p \in Procs |-> ""]
    /\ out = [p \in Procs |-> NoOut]
    /\ inv = [p \in Procs |-> <<>>]
    /\ rt = RtNone
    /\ arg = <<>>
    /\ ret = <<>>

\* each of the two invocations runs once, in any interleaving
NextRace ==
    \E p \in Procs :
        \/ StartAdd(p)
        \/ \E n \in Names : EnterName(p, n)
        \/ \E c \in CidrInputs : EnterAddress(p, c)
        \/ AddSubnet(p)
        \/ \E a \in Answers : VerifyAdd(p, a)
        \/ StartDelete(p)
        \/ \E n \in Names : EnterDeleteName(p, n)
        \/ \E a \in Answers : ConfirmDeleteRead(p, a)
        \/ DeleteWrite(p)
        \/ DeleteTruncate(p)

SpecRace == InitRace /\ [][NextRace]_vars

---------------------------------------------------------------------------
(* subnets_conflict applied to pairs of networks *)

OverlapAddrs ==
    { <<0, 0, 0, 0>>, <<10, 0, 0, 5>>, <<10, 0, 0, 128>>, <<10, 0, 1, 0>>,
      <<192, 168, 14, 200>>, <<255, 255, 255, 255>> }

\* ip_network(..., strict=False) of every address above at every prefix length
OverlapNets == {MakeNetwork(4, a, l) : a \in OverlapAddrs, l \in 0..32}

InitOverlap ==
    /\ file = [exists |-> TRUE, data |-> <<>>]
    /\ pc = [p \in Procs |-> "idle"]
    /\ name = [p \in Procs |-> <<>>]
    /\ cidr = [p \in Procs |-> <<>>]
    /\ conflicts = [p \in Procs |-> <<>>]
    /\ verify = [p \in Procs |-> ""]
    /\ out = [p \in Procs |-> NoOut]
    /\ inv = [p \in Procs |-> <<>>]
    /\ rt = RtNone
    /\ arg \in OverlapNets \X OverlapNets
    /\ ret = <<>>

ApplySubnetsConflict ==
    /\ ret = <<>>
    /\ ret' = <<subnets_conflict(arg[1], arg[2])>>
    /\ UNCHANGED <<file, pc, name, cidr, conflicts, verify, out, inv, rt, arg>>

NextOverlap == ApplySubnetsConflict

SpecOverlap == InitOverlap /\ [][NextOverlap]_vars

---------------------------------------------------------------------------
(* check_address_format applied to texts *)

\* n digits
RECURSIVE Rep(_)
Rep(n) == IF n = 0 THEN <<>> ELSE <<"1">> \o Rep(n - 1)

\* texts around the CIDR shape: digit groups of 0..MaxDigits digits, with or
\* without the slash, with or without a character before and after
FormatTexts ==
    { pre \o Rep(n1) \o <<".">> \o Rep(n2) \o <<".">> \o Rep(n3) \o <<".">>
          \o Rep(n4) \o sl \o Rep(n5) \o post :
        pre \in {<<>>, <<"x">>}, post \in {<<>>, <<" ">>}, sl \in {<<>>, <<"/">>},
        n1 \in 0..MaxDigits, n2 \in 0..MaxDigits, n3 \in 0..MaxDigits,
        n4 \in 0..MaxDigits, n5 \in 0..MaxDigits }
    \cup CidrInputs

InitFormat ==
    /\ file = [exists |-> TRUE, data |-> <<>>]
    /\ pc = [p \in Procs |-> "idle"]
    /\ name = [p \in Procs |-> <<>>]
    /\ cidr = [p \in Procs |-> <<>>]
    /\ conflicts = [p \in Procs |-> <<>>]
    /\ verify = [p \in Procs |-> ""]
    /\ out = [p \in Procs |-> NoOut]
    /\ inv = [p \in Procs |-> <<>>]
    /\ rt = RtNone
    /\ arg \in FormatTexts
    /\ ret = <<>>

ApplyCheckAddressFormat ==
    /\ ret = <<>>
    /\ ret' = <<check_address_format(arg)>>
    /\ UNCHANGED <<file, pc, name, cidr, conflicts, verify, out, inv, rt, arg>>

NextFormat == ApplyCheckAddressFormat

SpecFormat == InitFormat /\ [][NextFormat]_vars

---------------------------------------------------------------------------
(* Vocabulary of the properties *)

\* x <= y as addresses of the same length, most significant octet first
AddrLE(x, y) ==
    \/ x = y
    \/ \E i \in 1..Len(x) : x[i] < y[i] /\ \A k \in 1..(i - 1) : x[k] = y[k]

\* [a.first, a.last] and [b.first, b.last] share an address (an IPv4 and an
\* IPv6 network share none)
RangesIntersect(a, b) ==
    /\ a.version = b.version
    /\ AddrLE(a.addr, Broadcast(b))
    /\ AddrLE(b.addr, Broadcast(a))

\* 192.168.14.128/25 = 192.168.14.128 .. 192.168.14.255
ReservedRange ==
    [ok |-> TRUE, version |-> 4, addr |-> <<192, 168, 14, 128>>, prefixlen |-> 25]

\* the records of the store, as listed
Listing(data) == display_inventory(data).rows

\* the rows whose name is not n, in order
Without(rows, n) ==
    LET KeepRow(r) == r.name # n IN SelectSeq(rows, KeepRow)

\* the rows whose network shares an address with net, in order
OverlappingRows(rows, net) ==
    LET Hits(r) == RangesIntersect(ip_network(r.cidr_string), net)
    IN  SelectSeq(rows, Hits)

NameListed(data, n) ==
    \E i \in 1..Len(Listing(data)) : Listing(data)[i].name = n

\* the whole text is \d{1,3}\.\d{1,3}\.\d{1,3}\.\d{1,3}/\d{1,2}
HasCidrShape(t) == (Len(t) + 1) \in CidrPatternEnds(t, {1})

LineSet(data) == {readlines(data)[i] : i \in 1..Len(readlines(data))}

AddedMsg == "Subnet added to inventory"
RemovedMsg == "subnet removed from inventory"

---------------------------------------------------------------------------
(* Properties *)

\* C1: a candidate that overlaps the reserved range 192.168.14.128/25 is
\* refused by add_subnet at once: the invocation ends with the reserved
\* message, the confirmation prompt is not reached, and the file is left
\* as it was, whatever the store holds.
C1_ReservedRefused ==
    [][\A p \in Procs :
          ( /\ pc[p] = "add_subnet"
            /\ pc'[p] # "add_subnet"
            /\ ip_network(cidr[p]).ok
            /\ RangesIntersect(ip_network(cidr[p]), ReservedRange) )
          => ( /\ file' = file
               /\ pc'[p] = "done"
               /\ out'[p].msg = "Subnet is reserved" )]_vars

\* C1 witness: a reserved candidate was refused while a stored record
\* overlaps it as well.
C1_Witness ==
    \E p \in Procs :
        /\ pc[p] = "done"
        /\ out[p].msg = "Subnet is reserved"
        /\ RangesIntersect(ip_network(cidr[p]), ReservedRange)
        /\ OverlappingRows(Listing(file.data), ip_network(cidr[p])) # <<>>

\* C2: no two records of the store have the same name, in every state
\* reached from an empty store by add and delete invocations run one at a
\* time.
C2_UniqueNames ==
    LET rows == Listing(file.data)
    IN  \A i, j \in 1..Len(rows) : rows[i].name = rows[j].name => i = j

\* C3: with no inventory file, no invocation ends in FileNotFoundError.
C3_AbsentIsNoError ==
    \A p \in Procs : ~file.exists => out[p].msg # "FileNotFoundError"

\* C4: after an add invocation appended r and a delete invocation for
\* r.name ran next, the listed store equals the store listed before the add.
C4_RoundTrip ==
    rt.stage = "removed" => Listing(file.data) = Listing(rt.before)

\* C5: delete_subnet(name) leaves the listed store equal to the prior one
\* without the records of that name, the others unchanged and in order;
\* when no record has the name, the file is unchanged.
C5_DeleteIsFilter ==
    [][\A p \in Procs :
          ( /\ pc[p] = "idle"
            /\ pc'[p] = "done"
            /\ out'[p].msg \in {RemovedMsg, "FileNotFoundError"} )
          => ( /\ Listing(file'.data) = Without(Listing(file.data), name'[p])
               /\ (~NameListed(file.data, name'[p]) => file' = file) )]_vars

\* C5 witness: delete_subnet took the first of two records out and kept
\* the second.
C5_Witness ==
    \E p \in Procs :
        /\ pc[p] = "done"
        /\ out[p].msg = RemovedMsg
        /\ Len(inv[p]) = 2
        /\ NameOf(inv[p][1]) = name[p]
        /\ readlines(file.data) = <<inv[p][2]>>

\* C6: subnets_conflict(a, b) is true exactly when a.first <= b.last and
\* b.first <= a.last.
C6_ConflictIffRangesIntersect ==
    Len(ret) = 1 => (ret[1] <=> RangesIntersect(arg[1], arg[2]))

\* C6 witness: subnets_conflict answered true for a network b that lies
\* strictly inside a.
C6_Witness ==
    /\ Len(ret) = 1
    /\ ret[1]
    /\ arg[1].prefixlen < arg[2].prefixlen

\* C7: for every store, the absent one included, and every candidate
\* network, the conflict check returns exactly the stored records whose
\* network shares an address with the candidate, each once and in store
\* order (none when nothing conflicts), and leaves the file as it was.
C7_ExactConflicts ==
    [][\A p \in Procs :
          ( /\ pc[p] = "idle"
            /\ pc'[p] = "done"
            /\ cidr'[p] # <<>>
            /\ out'[p].msg \notin {"Subnet exists in inventory",
                                   "Subnet does not exist in inventory"}
            /\ check_address_format(cidr'[p])
            /\ ip_network(cidr'[p]).ok )
          => ( /\ file' = file
               /\ out'[p].msg \in {"No conflicting subnets in inventory",
                                   "The following subnet conflicts were found"}
               /\ out'[p].rows =
                     OverlappingRows(Listing(file.data), ip_network(cidr'[p]))
               /\ (out'[p].msg = "No conflicting subnets in inventory"
                     <=> out'[p].rows = <<>>) )]_vars

\* C8: a non-reserved candidate that conflicts with the store is neither
\* added nor refused by add_subnet itself: it is appended at the end of
\* the file exactly on the answer "Y", the file is unchanged on "n", and
\* any other answer changes nothing and asks again; a candidate that
\* overlaps no stored record and no reserved range is appended without a
\* prompt.
C8_ConfirmDecides ==
    [][\A p \in Procs :
          LET appended == file.data \o FormatLine(name[p], cidr[p])
              net == ip_network(cidr[p])
          IN  /\ (pc[p] = "add_verify" /\ verify'[p] = "Y")
                    => (file'.data = appended /\ pc'[p] = "done"
                        /\ out'[p].msg = AddedMsg)
              /\ (pc[p] = "add_verify" /\ verify'[p] = "n")
                    => (file' = file /\ pc'[p] = "done")
              /\ (pc[p] = "add_verify" /\ verify'[p] \notin {"Y", "n"})
                    => (file' = file /\ pc'[p] = "add_verify")
              /\ ( /\ pc[p] = "add_subnet"
                   /\ pc'[p] # "add_subnet"
                   /\ net.ok
                   /\ ~RangesIntersect(net, ReservedRange) )
                    => IF OverlappingRows(Listing(file.data), net) # <<>>
                       THEN file' = file /\ pc'[p] = "add_verify"
                       ELSE /\ file'.data = appended
                            /\ pc'[p] = "done"
                            /\ out'[p].msg = AddedMsg]_vars

\* C9: check_address_format returns True exactly for the texts that have
\* the CIDR shape as a whole.
C9_AcceptsIffShape ==
    Len(ret) = 1 => (ret[1] <=> HasCidrShape(arg))

\* C10: a line leaves the file only when a delete names it or rewrites the
\* file from a snapshot read before the line was appended; with two
\* invocations at once the second case happens.
C10_LostOnlyByStaleRewrite ==
    [][\A l \in LineSet(file.data) :
          l \notin LineSet(file'.data)
          => \E p \in Procs :
                /\ pc[p] \in {"del_write", "del_truncate"}
                /\ pc'[p] # pc[p]
                /\ \/ NameOf(l) = name[p]
                   \/ \A i \in 1..Len(inv[p]) : inv[p][i] # l]_vars

\* C10 witness: one invocation added its record and ended with success,
\* the other deleted a different name, and the added record is not in the
\* file.
C10_Witness ==
    \E p, q \in Procs :
        /\ p # q
        /\ pc[p] = "done" /\ out[p].msg = AddedMsg
        /\ pc[q] = "done" /\ out[q].msg = RemovedMsg
        /\ name[q] # name[p]
        /\ FormatLine(name[p], cidr[p]) \notin LineSet(file.data)

=============================================================================
